---- MODULE Spec2Model ----
(***************************************************************************)
(* Model of 8_capstone_project/process_results.py: one invocation of      *)
(* main(results_dir, repo_id).  The directory tree is revealed entry by    *)
(* entry, in traversal order, as the three nested iterdir() loops of       *)
(* get_results_from_dir consume it.                                        *)
(***************************************************************************)
EXTENDS Integers, Sequences, FiniteSets, TLC

VARIABLES
    pc,              \* position of the run inside main and its callees
    root,            \* state of the results_dir path on disk
    repo_id,         \* the --repo-id argument
    fsSeen,          \* directory entries yielded by iterdir() so far, in order
    handed,          \* indices (into fsSeen) passed to process_result_file
    cur,             \* index of the file process_result_file is working on
    openHandles,     \* indices of the files whose handle is open
    parsed,          \* <<object>> returned by json.load, <<>> when none
    results,         \* the list `results` of get_results_from_dir
    log,             \* records emitted through logger, in order
    reporterCalls,   \* calls of display_results
    uploadCalls,     \* calls of push_results_to_hub
    publishAttempts, \* calls of dataset.push_to_hub
    listCalls,       \* calls of iterdir()
    failure          \* exception that left main, "none" when none

vars == <<pc, root, repo_id, fsSeen, handed, cur, openHandles, parsed,
          results, log, reporterCalls, uploadCalls, publishAttempts, listCalls,
          failure>>

\* Bound on the number of directory entries one run meets.
MaxEntries == 5

----------------------------------------------------------------------------
\* JSON values and documents

Num(n) == [ty |-> "num", v |-> n]
Str(n) == [ty |-> "str", v |-> n]
Arr(s) == [ty |-> "arr", v |-> s]
Obj(f) == [ty |-> "obj", v |-> f]

EmptyMap == [k \in {} |-> Num(0)]

\* File contents: "garbage" is text that is not JSON, "notutf8" is bytes
\* that are not UTF-8, the others are JSON documents.
Texts == {"garbage", "notutf8", "example", "collide", "noscores", "noconfig",
          "noall", "array", "cfgstr"}

\* json.load(f): what it raises, "none" when it returns
LoadError(t) ==
    CASE t = "garbage" -> "JSONDecodeError"
      [] t = "notutf8" -> "UnicodeDecodeError"
      [] OTHER -> "none"

\* json.load(f): the value a document parses to
JsonLoad(t) ==
    CASE t = "example"  -> Obj([config_general |-> Obj([model_name |-> Str(0)]),
                                results |-> Obj([all |-> Obj([task1 |-> Num(1)])])])
      [] t = "collide"  -> Obj([config_general |-> Obj([model_name |-> Str(1), task1 |-> Str(0)]),
                                results |-> Obj([all |-> Obj([task1 |-> Num(0), task2 |-> Num(1)])])])
      [] t = "noscores" -> Obj([config_general |-> Obj([model_name |-> Str(0)]),
                                results |-> Obj([all |-> Obj(EmptyMap)])])
      [] t = "noconfig" -> Obj([results |-> Obj([all |-> Obj([task1 |-> Num(1)])])])
      [] t = "noall"    -> Obj([config_general |-> Obj([model_name |-> Str(0)]),
                                results |-> Obj(EmptyMap)])
      [] t = "array"    -> Arr(<<>>)
      [] t = "cfgstr"   -> Obj([config_general |-> Str(0),
                                results |-> Obj([all |-> Obj([task1 |-> Num(1)])])])

----------------------------------------------------------------------------
\* extract_results

\* x[k] with a string k: what it raises, "none" when it returns
GetItemError(x, k) ==
    IF x.ty # "obj" THEN "TypeError"
    ELSE IF k \in DOMAIN x.v THEN "none" ELSE "KeyError"

\* d[k] = v on a dict, keeping existing values (a setdefault, not an assignment)
SetItemKeepExisting(d, k, v) ==
    Obj([x \in DOMAIN d.v \cup {k} |-> IF x \in DOMAIN d.v THEN d.v[x] ELSE v])

\* d[k] = v on a dict
SetItem(d, k, v) ==
    Obj([x \in DOMAIN d.v \cup {k} |-> IF x = k THEN v ELSE d.v[x]])

\* the for loop over eval_results["results"]["all"].items()
RECURSIVE MergeItems(_, _, _)
MergeItems(model_results, all, todo) ==
    IF todo = {} THEN model_results
    ELSE LET task_name == CHOOSE x \in todo : TRUE
         IN  MergeItems(SetItem(model_results, task_name, all[task_name]),
                        all, todo \ {task_name})

\* what extract_results raises, "none" when it returns
ExtractError(eval_results) ==
    IF GetItemError(eval_results, "config_general") # "none"
      THEN GetItemError(eval_results, "config_general")
    ELSE IF GetItemError(eval_results, "results") # "none"
      THEN GetItemError(eval_results, "results")
    ELSE IF GetItemError(eval_results.v.results, "all") # "none"
      THEN GetItemError(eval_results.v.results, "all")
    ELSE LET cfg == eval_results.v.config_general
             all == eval_results.v.results.v.all
         IN  IF all.ty # "obj" THEN "AttributeError"
             ELSE IF DOMAIN all.v # {} /\ cfg.ty # "obj" THEN "TypeError"
             ELSE "none"

ExtractRaises(eval_results) == ExtractError(eval_results) # "none"

ExtractResults(eval_results) ==
    MergeItems(eval_results.v.config_general, eval_results.v.results.v.all.v,
               DOMAIN eval_results.v.results.v.all.v)

----------------------------------------------------------------------------
\* Directory entries

\* What iterdir() may yield.  stat: is_dir() can examine the entry,
\* ok: a directory can be listed, a file opened.
DirEntries ==
    {[kind |-> "file", suffix |-> s, stat |-> TRUE, ok |-> TRUE, text |-> "garbage"] :
        s \in {".json", ".txt"}}
    \cup {[kind |-> "dir", suffix |-> ".txt", stat |-> TRUE, ok |-> b, text |-> "garbage"] :
        b \in BOOLEAN}
    \cup {[kind |-> k, suffix |-> ".txt", stat |-> FALSE, ok |-> TRUE, text |-> "garbage"] :
        k \in {"file", "dir"}}

FileEntries ==
    {[kind |-> "file", suffix |-> ".txt", stat |-> TRUE, ok |-> TRUE, text |-> "garbage"],
     [kind |-> "dir", suffix |-> ".json", stat |-> TRUE, ok |-> FALSE, text |-> "garbage"],
     [kind |-> "file", suffix |-> ".json", stat |-> TRUE, ok |-> FALSE, text |-> "garbage"]}
    \cup {[kind |-> "file", suffix |-> ".json", stat |-> TRUE, ok |-> TRUE, text |-> t] :
        t \in Texts}

Seen(level, e) == [level |-> level, kind |-> e.kind, suffix |-> e.suffix,
                   stat |-> e.stat, ok |-> e.ok, text |-> e.text]

\* is_dir() raises
IsDirRaises(e) == ~e.stat

IsDir(e) == e.kind = "dir"

AcceptsAnySuffix(e) == TRUE

\* file.suffix == ".json"
IsJson(e) == e.suffix = ".json"

----------------------------------------------------------------------------
\* Logging

Line(level, msg) == [level |-> level, msg |-> msg]

ErrMissingKey   == Line("ERROR", "Missing required key in evaluation results")
ErrFileSkipped  == Line("ERROR", "Error processing file (walker)")
WarnNoResults   == Line("WARNING", "No valid result files found in the specified directory")
ErrReadingDir   == Line("ERROR", "Error reading results directory")
ErrInvalidJson  == Line("ERROR", "Invalid JSON in file")
ErrProcessing   == Line("ERROR", "Error processing file")
InfoPushed      == Line("INFO", "Successfully pushed results")
ErrPushing      == Line("ERROR", "Error pushing results to hub")
InfoSummary     == Line("INFO", "Results Summary:")
InfoTable       == Line("INFO", "table")
InfoStatsHead   == Line("INFO", "Summary Statistics:")
InfoStats       == Line("INFO", "describe")
ErrDisplay      == Line("ERROR", "Error displaying results")
ErrMain         == Line("ERROR", "Error in main execution")

----------------------------------------------------------------------------
\* display_results

\* the columns of pd.DataFrame(results)
Columns(rs) == UNION {DOMAIN rs[i].v : i \in 1..Len(rs)}

\* df.select_dtypes(include=["float64", "int64"]).columns
NumericCols(rs) ==
    {c \in Columns(rs) :
        \A i \in 1..Len(rs) : c \in DOMAIN rs[i].v => rs[i].v[c].ty = "num"}

\* DataFrame.describe() raises ValueError on a frame without columns
DescribeRaises(rs) == NumericCols(rs) = {}

----------------------------------------------------------------------------
\* main

TruthyNotNone(r) == r # "None"

\* `if repo_id:`
Truthy(r) == r \notin {"None", ""}

\* The results_dir path: "missing" and "missing_unstatable" do not exist,
\* and exists() raises on "missing_unstatable" (a name that is too long)
\* and on "unstatable" (a parent that may not be searched); "unlistable"
\* exists and iterdir() raises on it.
Roots == {"missing", "missing_unstatable", "unstatable", "unlistable", "dir"}

Init ==
    /\ pc = "start"
    /\ root \in Roots
    /\ repo_id \in {"None", "", "org/repo"}
    /\ fsSeen = <<>>
    /\ handed = <<>>
    /\ cur = 0
    /\ openHandles = {}
    /\ parsed = <<>>
    /\ results = <<>>
    /\ log = <<>>
    /\ reporterCalls = 0
    /\ uploadCalls = 0
    /\ publishAttempts = 0
    /\ listCalls = 0
    /\ failure = "none"

\* A failed listing that is logged and then ignored.
AbortWalkSwallowed ==
    /\ log' = Append(log, ErrReadingDir)
    /\ failure' = failure
    /\ pc' = "iter_root"

\* An exception leaves get_results_from_dir's try block and then main's.
AbortWalk ==
    /\ log' = log \o <<ErrReadingDir, ErrMain>>
    /\ failure' = "OSError"
    /\ pc' = "failed"

\* main up to the first iterdir() of get_results_from_dir
Start ==
    /\ pc = "start"
    /\ IF root \in {"missing_unstatable", "unstatable"}
         THEN /\ log' = Append(log, ErrMain)
              /\ failure' = "OSError"
              /\ pc' = "failed"
              /\ UNCHANGED listCalls
         ELSE IF root = "missing"
         THEN /\ log' = Append(log, ErrMain)
              /\ failure' = "FileNotFoundError"
              /\ pc' = "failed"
              /\ UNCHANGED listCalls
         ELSE /\ listCalls' = listCalls + 1
              /\ IF root = "dir"
                   THEN /\ pc' = "iter_root"
                        /\ UNCHANGED <<log, failure>>
                   ELSE AbortWalk
    /\ UNCHANGED <<root, repo_id, fsSeen, handed, cur, openHandles, parsed,
                   results, reporterCalls, uploadCalls, publishAttempts>>

\* one step of `for author_dir in results_dir.iterdir()`, and the return
IterRoot ==
    /\ pc = "iter_root"
    /\ \/ /\ log' = IF results = <<>> THEN Append(log, WarnNoResults) ELSE log
          /\ pc' = "display"
          /\ UNCHANGED <<fsSeen, listCalls, failure>>
       \/ /\ Len(fsSeen) < MaxEntries
          /\ \E e \in DirEntries :
               /\ fsSeen' = Append(fsSeen, Seen(1, e))
               /\ IF IsDirRaises(e)
                    THEN /\ AbortWalk
                         /\ UNCHANGED listCalls
                    ELSE IF ~IsDir(e)
                    THEN UNCHANGED <<pc, log, listCalls, failure>>
                    ELSE /\ listCalls' = listCalls + 1
                         /\ IF e.ok
                              THEN /\ pc' = "iter_author"
                                   /\ UNCHANGED <<log, failure>>
                              ELSE AbortWalk
    /\ UNCHANGED <<root, repo_id, handed, cur, openHandles, parsed, results,
                   reporterCalls, uploadCalls, publishAttempts>>

\* one step of `for model_dir in author_dir.iterdir()`
IterAuthor ==
    /\ pc = "iter_author"
    /\ \/ /\ pc' = "iter_root"
          /\ UNCHANGED <<fsSeen, log, listCalls, failure>>
       \/ /\ Len(fsSeen) < MaxEntries
          /\ \E e \in DirEntries :
               /\ fsSeen' = Append(fsSeen, Seen(2, e))
               /\ IF IsDirRaises(e)
                    THEN /\ AbortWalk
                         /\ UNCHANGED listCalls
                    ELSE IF ~IsDir(e)
                    THEN UNCHANGED <<pc, log, listCalls, failure>>
                    ELSE /\ listCalls' = listCalls + 1
                         /\ IF e.ok
                              THEN /\ pc' = "iter_model"
                                   /\ UNCHANGED <<log, failure>>
                              ELSE AbortWalk
    /\ UNCHANGED <<root, repo_id, handed, cur, openHandles, parsed, results,
                   reporterCalls, uploadCalls, publishAttempts>>

\* one step of `for file in model_dir.iterdir()` up to the call of
\* process_result_file
IterModel ==
    /\ pc = "iter_model"
    /\ \/ /\ pc' = "iter_author"
          /\ UNCHANGED <<fsSeen, handed, cur>>
       \/ /\ Len(fsSeen) < MaxEntries
          /\ \E e \in FileEntries :
               /\ fsSeen' = Append(fsSeen, Seen(3, e))
               /\ IF ~IsJson(e)
                    THEN UNCHANGED <<pc, handed, cur>>
                    ELSE /\ handed' = Append(handed, Len(fsSeen) + 1)
                         /\ cur' = Len(fsSeen) + 1
                         /\ pc' = "prf_open"
    /\ UNCHANGED <<root, repo_id, openHandles, parsed, results, log,
                   reporterCalls, uploadCalls, publishAttempts, listCalls, failure>>

\* A per-file handler that re-raises instead of continuing.
SkipFileAbort(msgs) ==
    /\ log' = log \o msgs \o <<ErrFileSkipped, ErrReadingDir, ErrMain>>
    /\ pc' = "failed"
    /\ failure' = "FileError"
    /\ cur' = 0
    /\ parsed' = <<>>
    /\ results' = results

\* process_result_file raises: its own handler logs msgs, the handler of the
\* per-file loop logs and continues with the next file.
SkipFile(msgs) ==
    /\ log' = log \o msgs \o <<ErrFileSkipped>>
    /\ pc' = "iter_model"
    /\ failure' = failure
    /\ cur' = 0
    /\ parsed' = <<>>
    /\ results' = results

\* file_path.open()
PrfOpen ==
    /\ pc = "prf_open"
    /\ IF fsSeen[cur].ok
         THEN /\ openHandles' = openHandles \cup {cur}
              /\ pc' = "prf_load"
              /\ UNCHANGED <<log, failure, cur, parsed, results>>
         ELSE /\ SkipFile(<<ErrProcessing>>)
              /\ UNCHANGED openHandles
    /\ UNCHANGED <<root, repo_id, fsSeen, handed, reporterCalls, uploadCalls,
                   publishAttempts, listCalls>>

\* A handle that is closed only when json.load returns.
HandlesAfterLoadLeak(h, f, err) == IF err = "none" THEN h \ {f} ELSE h

\* leaving the `with` block closes the handle, whether json.load returned or raised
HandlesAfterLoad(h, f, err) == h \ {f}

\* json.load(f) and the end of the `with` block
PrfLoad ==
    /\ pc = "prf_load"
    /\ LET err == LoadError(fsSeen[cur].text) IN
         /\ openHandles' = HandlesAfterLoad(openHandles, cur, err)
         /\ IF err = "none"
              THEN /\ parsed' = <<JsonLoad(fsSeen[cur].text)>>
                   /\ pc' = "prf_extract"
                   /\ UNCHANGED <<log, failure, cur, results>>
              ELSE IF err = "JSONDecodeError"
              THEN SkipFile(<<ErrInvalidJson>>)
              ELSE SkipFile(<<ErrProcessing>>)
    /\ UNCHANGED <<root, repo_id, fsSeen, handed, reporterCalls, uploadCalls,
                   publishAttempts, listCalls>>

PrependResult(rs, r) == <<r>> \o rs

\* results.append(...)
AppendResult(rs, r) == Append(rs, r)

\* extract_results(results) and results.append of the walker
PrfExtract ==
    /\ pc = "prf_extract"
    /\ IF ExtractRaises(parsed[1])
         THEN IF ExtractError(parsed[1]) = "KeyError"
                THEN SkipFile(<<ErrMissingKey, ErrProcessing>>)
                ELSE SkipFile(<<ErrProcessing>>)
         ELSE /\ results' = AppendResult(results, ExtractResults(parsed[1]))
              /\ pc' = "iter_model"
              /\ cur' = 0
              /\ parsed' = <<>>
              /\ UNCHANGED <<log, failure>>
    /\ UNCHANGED <<root, repo_id, fsSeen, handed, openHandles, reporterCalls,
                   uploadCalls, publishAttempts, listCalls>>

\* display_results(results) and the `if repo_id:` of main
Display ==
    /\ pc = "display"
    /\ reporterCalls' = reporterCalls + 1
    /\ IF DescribeRaises(results)
         THEN /\ log' = log \o <<InfoSummary, InfoTable, InfoStatsHead, ErrDisplay, ErrMain>>
              /\ failure' = "ValueError"
              /\ pc' = "failed"
         ELSE /\ log' = log \o <<InfoSummary, InfoTable, InfoStatsHead, InfoStats>>
              /\ failure' = failure
              /\ pc' = IF Truthy(repo_id) THEN "push" ELSE "done"
    /\ UNCHANGED <<root, repo_id, fsSeen, handed, cur, openHandles, parsed,
                   results, uploadCalls, publishAttempts, listCalls>>

\* What Dataset.from_list and dataset.push_to_hub may do.
PushOutcomes == {"from_list_raises", "push_raises", "ok"}

\* A push that is tried again after it failed.
PushToHubCallsRetry(outcome) ==
    CASE outcome = "from_list_raises" -> 0
      [] outcome = "push_raises" -> 2
      [] outcome = "ok" -> 1

\* calls of dataset.push_to_hub in one call of push_results_to_hub
PushToHubCalls(outcome) == IF outcome = "from_list_raises" THEN 0 ELSE 1

\* push_results_to_hub(results, repo_id)
Push ==
    /\ pc = "push"
    /\ uploadCalls' = uploadCalls + 1
    /\ \E outcome \in PushOutcomes :
         /\ publishAttempts' = publishAttempts + PushToHubCalls(outcome)
         /\ IF outcome = "ok"
              THEN /\ log' = Append(log, InfoPushed)
                   /\ failure' = failure
                   /\ pc' = "done"
              ELSE /\ log' = log \o <<ErrPushing, ErrMain>>
                   /\ failure' = "UploadError"
                   /\ pc' = "failed"
    /\ UNCHANGED <<root, repo_id, fsSeen, handed, cur, openHandles, parsed,
                   results, reporterCalls, listCalls>>

Next ==
    \/ Start
    \/ IterRoot
    \/ IterAuthor
    \/ IterModel
    \/ PrfOpen
    \/ PrfLoad
    \/ PrfExtract
    \/ Display
    \/ Push

Spec == Init /\ [][Next]_vars

----------------------------------------------------------------------------
\* Vocabulary of the properties

Terminal == pc \in {"done", "failed"}

\* get_results_from_dir has returned its list
WalkerReturned ==
    \/ pc \in {"display", "push", "done"}
    \/ pc = "failed" /\ failure \in {"ValueError", "UploadError"}

NonEmptyId == repo_id # "None" /\ repo_id # ""

RootExists == root \in {"unstatable", "unlistable", "dir"}

\* eval_results has a config_general mapping and a results.all mapping
WellFormed(ev) ==
    /\ ev.ty = "obj"
    /\ "config_general" \in DOMAIN ev.v
    /\ ev.v.config_general.ty = "obj"
    /\ "results" \in DOMAIN ev.v
    /\ ev.v.results.ty = "obj"
    /\ "all" \in DOMAIN ev.v.results.v
    /\ ev.v.results.v.all.ty = "obj"

\* the record a well-formed document stands for
RecordOf(ev) ==
    LET cfg == ev.v.config_general.v
        all == ev.v.results.v.all.v
    IN  Obj([k \in DOMAIN cfg \cup DOMAIN all |->
                IF k \in DOMAIN all THEN all[k] ELSE cfg[k]])

Decodable(t) == t \notin {"garbage", "notutf8"}

InvalidJsonFile(i) == fsSeen[i].ok /\ ~Decodable(fsSeen[i].text)

MissingSectionFile(i) ==
    /\ fsSeen[i].ok
    /\ Decodable(fsSeen[i].text)
    /\ ~WellFormed(JsonLoad(fsSeen[i].text))

GoodFile(i) ==
    /\ fsSeen[i].ok
    /\ Decodable(fsSeen[i].text)
    /\ WellFormed(JsonLoad(fsSeen[i].text))

Indices == [i \in 1..Len(fsSeen) |-> i]

\* the entries matching root/*/*/*.json, in traversal order
MatchingSeq ==
    SelectSeq(Indices, LAMBDA i : fsSeen[i].level = 3 /\ fsSeen[i].suffix = ".json")

\* the files process_result_file is done with
FinishedSeq == SelectSeq(handed, LAMBDA i : i # cur)

GoodFinishedSeq == SelectSeq(FinishedSeq, GoodFile)

ExpectedResults ==
    [j \in 1..Len(GoodFinishedSeq) |-> RecordOf(JsonLoad(fsSeen[GoodFinishedSeq[j]].text))]

HasParent(i) ==
    \E j \in 1..(i - 1) : fsSeen[j].level = fsSeen[i].level - 1

Parent(i) ==
    CHOOSE j \in 1..(i - 1) :
        /\ fsSeen[j].level = fsSeen[i].level - 1
        /\ \A h \in (j + 1)..(i - 1) : fsSeen[h].level # fsSeen[i].level - 1

UnlistableSeen ==
    \E i \in 1..Len(fsSeen) :
        /\ fsSeen[i].level \in {1, 2}
        /\ fsSeen[i].stat /\ fsSeen[i].kind = "dir" /\ ~fsSeen[i].ok

\* an entry of the root or of an author directory that is_dir() could not
\* examine
UnstatableSeen ==
    \E i \in 1..Len(fsSeen) : fsSeen[i].level \in {1, 2} /\ ~fsSeen[i].stat

LogCount(line) == Cardinality({i \in 1..Len(log) : log[i] = line})

LogEndsWith(lines) ==
    /\ Len(log) >= Len(lines)
    /\ SubSeq(log, Len(log) - Len(lines) + 1, Len(log)) = lines

----------------------------------------------------------------------------
\* C1: for every parsed object with a config_general and a results.all
\* mapping, the record extract_results returns has every key of both
\* mappings, and at every key of results.all it holds the value of
\* results.all, also when config_general has that key too.
C1_ExtractKeepsKeysAndScores ==
    [][(pc = "prf_extract" /\ WellFormed(parsed[1])) =>
         /\ Len(results') = Len(results) + 1
         /\ LET r   == results'[Len(results')]
                cfg == parsed[1].v.config_general.v
                all == parsed[1].v.results.v.all.v
            IN  /\ r.ty = "obj"
                /\ DOMAIN cfg \subseteq DOMAIN r.v
                /\ DOMAIN all \subseteq DOMAIN r.v
                /\ \A k \in DOMAIN all : r.v[k] = all[k]]_vars

\* a record extracted from a document whose score task1 collides with a
\* configuration field
C1_Witness ==
    \E j \in 1..Len(results) :
        /\ DOMAIN results[j].v = {"model_name", "task1", "task2"}
        /\ results[j].v["task1"] = Num(0)
        /\ results[j].v["model_name"] = Str(1)

\* C2: a .json file that is not valid JSON or lacks config_general or
\* results.all adds no record, leaves the collected records as they are and
\* does not stop the traversal; on return every matching file was processed
\* and every valid one has its record in the returned list.
C2_BadFileSkippedOthersKept ==
    /\ [][((pc = "prf_load" /\ ~Decodable(fsSeen[cur].text))
            \/ (pc = "prf_extract" /\ ~WellFormed(parsed[1]))) =>
           (results' = results /\ pc' = "iter_model" /\ failure' = "none")]_vars
    /\ [](WalkerReturned =>
            /\ handed = MatchingSeq
            /\ cur = 0
            /\ results = ExpectedResults)

\* an invalid file and a file without a section came before a valid file
\* whose record was returned
C2_Witness ==
    /\ WalkerReturned
    /\ \E a, b, c \in 1..Len(fsSeen) :
         /\ a < c /\ b < c
         /\ fsSeen[a].level = 3 /\ fsSeen[a].suffix = ".json" /\ InvalidJsonFile(a)
         /\ fsSeen[b].level = 3 /\ fsSeen[b].suffix = ".json" /\ MissingSectionFile(b)
         /\ fsSeen[c].level = 3 /\ fsSeen[c].suffix = ".json" /\ GoodFile(c)
    /\ Len(results) = 1

\* C3 as stated: at the end of every run an upload was attempted if and
\* only if a non-empty repository identifier was supplied.
C3_Original ==
    Terminal => (uploadCalls > 0 <=> NonEmptyId)

\* C3 amended: no upload is ever attempted without a non-empty repository
\* identifier, and at the end of a run an upload was attempted if and only
\* if the identifier is non-empty and both get_results_from_dir and
\* display_results returned without raising.
C3_UploadIffIdAndStagesReturn ==
    /\ uploadCalls > 0 => NonEmptyId
    /\ Terminal =>
         (uploadCalls > 0 <=>
            /\ NonEmptyId
            /\ failure \notin {"FileNotFoundError", "OSError", "ValueError"})

C3_Witness ==
    /\ pc = "done"
    /\ repo_id = "org/repo"
    /\ uploadCalls = 1

\* C4 as stated: when listing an author or a model directory fails,
\* get_results_from_dir goes on and does not fail.
C4_Original ==
    UnlistableSeen => failure = "none"

\* C4 amended: a file that cannot be opened or read is logged and skipped,
\* the records collected so far are kept and the traversal goes on; a
\* failure to list the root, an author or a model directory, or to examine
\* (is_dir) an entry of the root or of an author directory, is logged and
\* raised again, so that get_results_from_dir and main fail and neither
\* display_results nor push_results_to_hub is called.
C4_FileErrorSkippedListErrorRaised ==
    /\ [][((pc = "prf_open" /\ ~fsSeen[cur].ok)
            \/ (pc = "prf_load" /\ fsSeen[cur].text = "notutf8")) =>
           /\ results' = results
           /\ pc' = "iter_model"
           /\ failure' = "none"
           /\ log' = log \o <<ErrProcessing, ErrFileSkipped>>]_vars
    /\ []((UnlistableSeen \/ UnstatableSeen
             \/ (root = "unlistable" /\ pc # "start")) =>
            /\ pc = "failed"
            /\ failure = "OSError"
            /\ LogEndsWith(<<ErrReadingDir, ErrMain>>)
            /\ reporterCalls = 0
            /\ uploadCalls = 0)

\* a file that could not be opened was skipped, a later file gave a record,
\* and then a directory that could not be listed ended the run
C4_Witness ==
    /\ pc = "failed"
    /\ UnlistableSeen
    /\ results # <<>>
    /\ \E i \in 1..Len(handed) : ~fsSeen[handed[i]].ok

\* C5: with a root path that does not exist, get_results_from_dir fails
\* with the not-found error before any directory is listed or any file is
\* opened, and main passes the failure on without calling display_results
\* or push_results_to_hub.
C5_MissingRootFailsFirst ==
    (~RootExists /\ pc # "start") =>
        /\ pc = "failed"
        /\ failure = "FileNotFoundError"
        /\ listCalls = 0
        /\ fsSeen = <<>>
        /\ handed = <<>>
        /\ openHandles = {}
        /\ reporterCalls = 0
        /\ uploadCalls = 0
        /\ log = <<ErrMain>>

\* C6: for an existing root without any root/*/*/*.json file,
\* get_results_from_dir returns the empty list, logs exactly one warning
\* and raises nothing, and the run does not end in a failure.
C6_EmptyTreeIsNoFailure ==
    (Terminal /\ root = "dir" /\ ~UnlistableSeen /\ ~UnstatableSeen
        /\ MatchingSeq = <<>>) =>
        /\ results = <<>>
        /\ LogCount(WarnNoResults) = 1
        /\ failure = "none"
        /\ pc = "done"

\* C7 as stated: a non-directory entry at the first two levels and a
\* non-JSON entry at the third level gives no record and no log line, and
\* the traversal goes on.
C7_Original ==
    [][(/\ Len(fsSeen') = Len(fsSeen) + 1
        /\ LET e == fsSeen'[Len(fsSeen')]
           IN  \/ e.level \in {1, 2} /\ e.kind # "dir"
               \/ e.level = 3 /\ e.suffix # ".json") =>
       (log' = log /\ results' = results /\ handed' = handed /\ pc' = pc)]_vars

\* C7 amended: the paths handed to process_result_file are exactly the
\* entries met that match root/*/*/*.json, each below two directories; an
\* entry at the first two levels that is_dir() reports as no directory,
\* and a non-JSON entry at the third level, gives no record and no log
\* line; an entry at the first two levels that is_dir() cannot examine
\* ends the traversal with logged errors.
C7_HandedAreExactlyMatching ==
    /\ [](/\ handed = MatchingSeq
          /\ \A i \in 1..Len(fsSeen) :
               fsSeen[i].level > 1 =>
                 (/\ HasParent(i)
                  /\ fsSeen[Parent(i)].kind = "dir"
                  /\ fsSeen[Parent(i)].stat))
    /\ [][(/\ Len(fsSeen') = Len(fsSeen) + 1
           /\ LET e == fsSeen'[Len(fsSeen')]
              IN  \/ e.level \in {1, 2} /\ e.stat /\ e.kind # "dir"
                  \/ e.level = 3 /\ e.suffix # ".json") =>
          (log' = log /\ results' = results /\ handed' = handed /\ pc' = pc)]_vars
    /\ [][(/\ Len(fsSeen') = Len(fsSeen) + 1
           /\ ~fsSeen'[Len(fsSeen')].stat) =>
          (/\ pc' = "failed"
           /\ log' = log \o <<ErrReadingDir, ErrMain>>
           /\ results' = results /\ handed' = handed)]_vars

\* a .json file directly under the root and a non-JSON entry in a model
\* directory were passed over, a .json file in the model directory was
\* handed on
C7_Witness ==
    /\ \E i \in 1..Len(fsSeen) :
         /\ fsSeen[i].level = 1 /\ fsSeen[i].stat
         /\ fsSeen[i].kind = "file" /\ fsSeen[i].suffix = ".json"
    /\ \E i \in 1..Len(fsSeen) : fsSeen[i].level = 3 /\ fsSeen[i].suffix = ".txt"
    /\ Len(handed) = 1

\* C8: the remote publish is attempted at most once in a run of main; when
\* it fails the failure is logged, leaves push_results_to_hub and main,
\* no second attempt is made and the success message is not logged.
C8_SinglePublishAttempt ==
    /\ publishAttempts <= 1
    /\ uploadCalls <= 1
    /\ publishAttempts <= uploadCalls
    /\ failure = "UploadError" =>
         /\ pc = "failed"
         /\ uploadCalls = 1
         /\ LogEndsWith(<<ErrPushing, ErrMain>>)
         /\ LogCount(InfoPushed) = 0

C8_Witness ==
    /\ failure = "UploadError"
    /\ publishAttempts = 1

\* C9: at every point of the traversal the list holds exactly one record
\* per .json file processed successfully so far, in the order of the visit;
\* its length never decreases and never exceeds the number of .json files
\* visited.
C9_OneRecordPerSuccessInOrder ==
    /\ [](/\ results = ExpectedResults
          /\ Len(results) <= Len(handed))
    /\ [][Len(results') >= Len(results)]_vars

\* two different records, collected in the order of their files, with a
\* failed file between them
C9_Witness ==
    /\ Len(results) = 2
    /\ results[1] # results[2]
    /\ Len(handed) = 3

\* C10: at most one input file handle is open at any time, a handle is
\* open only between open() and the end of the `with` block of
\* process_result_file, and none is open while display_results or
\* push_results_to_hub runs.
C10_HandleScopedToLoad ==
    /\ Cardinality(openHandles) <= 1
    /\ openHandles # {} => (pc = "prf_load" /\ openHandles = {cur})

\* process_result_file has raised on invalid JSON and the walker goes on
C10_Witness ==
    /\ pc = "iter_model"
    /\ openHandles = {}
    /\ \E i \in 1..Len(handed) : InvalidJsonFile(handed[i])

====
